---- MODULE Spec2Model ----
(***************************************************************************)
(* Proximity-verified delivery backend: the session / challenge / proof    *)
(* state machine of the express server (src/unnamed/part_000) over the     *)
(* sqlite record store (src/backend/db.js).                                *)
(*                                                                         *)
(* Every request handler is an async function: it runs synchronously up to *)
(* each `await db.*` and other requests interleave there.  A handler is    *)
(* therefore modelled as one action per awaited record-store call, the     *)
(* synchronous code that follows the call included in the same action.     *)
(***************************************************************************)
EXTENDS Integers, Sequences, FiniteSets, TLC

\* ---------------------------------------------------------------- bounds
MaxSessions == 1
MaxChallenges == 2
MaxProofs == 2
MaxTicks == 2
MaxBatch == 2
MaxPairSessions == 2

\* The clock advances in steps of 60 s; all stored times are milliseconds.
TickMs == 60 * 1000
\* part_000:215  expires_at = created_at + (60 * 1000)
ChallengeWindowMs == 60 * 1000

\* ---------------------------------------------------------------- inputs
DpIds == {"dp_1", "dp_2"}
PublicKeys == {"pk_1", "pk_2"}
\* Each delivery partner registers the public key of its own key pair
\* (simulate_dp_submit.js: loadOrCreateDPKey).
KeyOf(dp_id) == IF dp_id = "dp_1" THEN "pk_1" ELSE "pk_2"
\* A dp_id of digits, as the JSON string "7" and as the JSON number 7
\* (written "#7"): register accepts the string, the other handlers take
\* req.body.dp_id as sent.
TypedDpIds == {"7", "#7"}
\* The values the column dp_keys.dp_id may hold.
StoredDpIds == DpIds \cup {"7"}
CustomerIds == {"", "cus_1"}
OrderIds == {"ord_1"}
TtlChoices == {60}
\* ttl_seconds as any number a client may send: the handler takes it as sent.
AnyTtlChoices == {-60, 0, 60, 120}
Procs == 1 .. MaxProofs
SessionIds == 1 .. MaxSessions

NULL == [null |-> TRUE]

VARIABLES
    now,              \* Date.now(), ms
    sessions,         \* table sessions, indexed by session_id
    challenges,       \* table challenges, indexed by challenge_id
    dp_keys,          \* table dp_keys: dp_id -> row or NULL
    delivery_events,  \* table delivery_events, indexed by event_id
    anchored,         \* AnchorRegistry.anchored: the set of stored hashes
    emitted,          \* AnchorStored events emitted: anchorHash -> how many
    receipt,          \* the last transaction sent to the registry directly
    ledger_up,        \* the RPC node answers (where a run keeps track of it)
    pc,               \* per submission: the await it is suspended at
    req,              \* per submission: req.body
    session,          \* per submission: const session (row as read)
    challenge,        \* per submission: const challenge (row as read)
    dpKey,            \* per submission: const dpKey (row as read)
    eventData,        \* per submission: const eventData
    res,              \* per submission: the response sent
    submitted,        \* per submission in flight, as of its arrival:
                      \* whether its session was past expires_at, and the
                      \* number of delivery events stored
    replayed          \* per submission: at its arrival a delivery event
                      \* already carried the nonce its message presents

vars == <<now, sessions, challenges, dp_keys, delivery_events, anchored,
          emitted, receipt, ledger_up, pc, req, session, challenge, dpKey, eventData, res,
          submitted, replayed>>

store == <<sessions, challenges, dp_keys, delivery_events>>
ledger == <<anchored, emitted, receipt, ledger_up>>
locals == <<req, session, challenge, dpKey, eventData, submitted, replayed>>

\* ------------------------------------------------------- pure functions
\* crypto.createHash('sha256').update(data).digest('hex'): injective on the
\* inputs of the model.
hashString(data) == <<"sha256hex", data>>

\* generateToken(): crypto.randomBytes(n).toString('hex'); the k-th draw is
\* a value no other draw returns.
generateToken(kind, k) == <<kind, k>>

\* 'sha256:' + hashString(session.ephemeral_token)
TokenHash(token) == <<"sha256:", hashString(token)>>

\* keyPair.sign(hashString(message)) as r||s hex (128 chars): the signature
\* made with the private key of `key` over `message`.
Sign(key, message) == [hex |-> TRUE, signer |-> key, over |-> hashString(message)]

\* A signature string that is not 128 hex characters.
BadHexSignature == [hex |-> FALSE, signer |-> "none", over |-> <<"none">>]

verifySignature_IgnoreKey(publicKeyHex, message, signatureHex) ==
    /\ signatureHex.hex
    /\ signatureHex.over = hashString(message)

\* verifySignature: false unless the key is a non-empty string and the
\* signature a string of 128 hex characters (hex); then key.verify.
verifySignature(publicKeyHex, message, signatureHex) ==
    /\ publicKeyHex /= ""
    /\ signatureHex.hex
    /\ signatureHex.signer = publicKeyHex
    /\ signatureHex.over = hashString(message)

\* ---------------------------------------------------------- record store
\* A value bound to a column declared TEXT, in an INSERT or in a comparison
\* with the column: sqlite stores and compares a number as its decimal text.
ToText(v) == IF v = "#7" THEN "7" ELSE v

\* db.getSession: SELECT * FROM sessions WHERE session_id = ?
getSession(ss, session_id) ==
    IF session_id \in DOMAIN ss THEN ss[session_id] ELSE NULL

createSession_OnePerPair(ss, sessionData) ==
    IF \E i \in DOMAIN ss : /\ ss[i].customer_id = sessionData.customer_id
                             /\ ss[i].order_id = sessionData.order_id
                             /\ ss[i].status = "active"
    THEN ss
    ELSE Append(ss, [session_id |-> sessionData.session_id,
                     customer_id |-> sessionData.customer_id,
                     order_id |-> sessionData.order_id,
                     ephemeral_token |-> sessionData.ephemeral_token,
                     token_type |-> sessionData.token_type,
                     created_at |-> sessionData.created_at,
                     expires_at |-> sessionData.expires_at,
                     status |-> "active"])

\* db.createSession: INSERT INTO sessions (...); status DEFAULT 'active'
createSession(ss, sessionData) ==
    Append(ss, [session_id |-> sessionData.session_id,
                customer_id |-> sessionData.customer_id,
                order_id |-> sessionData.order_id,
                ephemeral_token |-> sessionData.ephemeral_token,
                token_type |-> sessionData.token_type,
                created_at |-> sessionData.created_at,
                expires_at |-> sessionData.expires_at,
                status |-> "active"])

updateSessionStatus_Reopen(ss, session_id, status) ==
    [i \in DOMAIN ss |->
        IF ss[i].session_id = session_id
        THEN [ss[i] EXCEPT !.status =
                IF ss[i].status = status THEN "active" ELSE status]
        ELSE ss[i]]

\* db.updateSessionStatus: UPDATE sessions SET status = ? WHERE session_id = ?
updateSessionStatus(ss, session_id, status) ==
    [i \in DOMAIN ss |->
        IF ss[i].session_id = session_id THEN [ss[i] EXCEPT !.status = status]
        ELSE ss[i]]

\* db.createChallenge: INSERT INTO challenges (...); used DEFAULT 0
createChallenge(chs, challengeData) ==
    Append(chs, [challenge_id |-> challengeData.challenge_id,
                 session_id |-> challengeData.session_id,
                 dp_id |-> ToText(challengeData.dp_id),
                 challenge_nonce |-> challengeData.challenge_nonce,
                 created_at |-> challengeData.created_at,
                 expires_at |-> challengeData.expires_at,
                 used |-> 0])

getChallenge_AnySession(chs, session_id, dp_id) ==
    LET rows == {i \in DOMAIN chs :
                    /\ chs[i].dp_id = ToText(dp_id)
                    /\ chs[i].used = 0}
    IN  {chs[i] : i \in {j \in rows :
                    \A k \in rows : chs[k].created_at <= chs[j].created_at}}

getChallenge_Oldest(chs, session_id, dp_id) ==
    LET rows == {i \in DOMAIN chs :
                    /\ chs[i].session_id = session_id
                    /\ chs[i].dp_id = ToText(dp_id)
                    /\ chs[i].used = 0}
    IN  {chs[i] : i \in {j \in rows :
                    \A k \in rows : chs[k].created_at >= chs[j].created_at}}

\* db.getChallenge: SELECT * FROM challenges WHERE session_id = ? AND
\* dp_id = ? AND used = 0 ORDER BY created_at DESC LIMIT 1.  The result is
\* the set of rows the query may return: rows of equal created_at are in no
\* defined order, so any of them may be the first.
getChallenge(chs, session_id, dp_id) ==
    LET rows == {i \in DOMAIN chs :
                    /\ chs[i].session_id = session_id
                    /\ chs[i].dp_id = ToText(dp_id)
                    /\ chs[i].used = 0}
    IN  {chs[i] : i \in {j \in rows :
                    \A k \in rows : chs[k].created_at <= chs[j].created_at}}

markChallengeUsed_BySession(chs, challenge_id) ==
    [i \in DOMAIN chs |->
        IF chs[i].session_id = chs[challenge_id].session_id
        THEN [chs[i] EXCEPT !.used = 1]
        ELSE chs[i]]

markChallengeUsed_Toggle(chs, challenge_id) ==
    [i \in DOMAIN chs |->
        IF chs[i].challenge_id = challenge_id
        THEN [chs[i] EXCEPT !.used = 1 - chs[i].used]
        ELSE chs[i]]

\* db.markChallengeUsed: UPDATE challenges SET used = 1 WHERE challenge_id = ?
markChallengeUsed(chs, challenge_id) ==
    [i \in DOMAIN chs |->
        IF chs[i].challenge_id = challenge_id THEN [chs[i] EXCEPT !.used = 1]
        ELSE chs[i]]

createDeliveryEvent_NotStored(evs, evData) == evs

\* db.createDeliveryEvent: INSERT INTO delivery_events (...); the anchoring
\* columns are NULL and status DEFAULT 'pending'
createDeliveryEvent(evs, evData) ==
    Append(evs, [event_id |-> evData.event_id,
                 session_id |-> evData.session_id,
                 order_id |-> evData.order_id,
                 customer_id |-> evData.customer_id,
                 dp_id |-> ToText(evData.dp_id),
                 ephemeral_token_hash |-> evData.ephemeral_token_hash,
                 challenge_nonce |-> evData.challenge_nonce,
                 dp_signature |-> evData.dp_signature,
                 evidence_hashes |-> evData.evidence_hashes,
                 timestamp |-> evData.timestamp,
                 backend_received_at |-> evData.backend_received_at,
                 anchor_hash |-> NULL,
                 tx_hash |-> NULL,
                 anchored_at |-> NULL,
                 status |-> "pending"])

\* db.updateEventAnchor: UPDATE delivery_events SET anchor_hash = ?,
\* tx_hash = ?, anchored_at = ?, status = 'anchored' WHERE event_id = ?
updateEventAnchor(evs, id, anchor_hash, tx_hash, anchored_at) ==
    [i \in DOMAIN evs |->
        IF evs[i].event_id = id
        THEN [evs[i] EXCEPT !.anchor_hash = anchor_hash, !.tx_hash = tx_hash,
                            !.anchored_at = anchored_at, !.status = "anchored"]
        ELSE evs[i]]

\* db.getDeliveryEvent: SELECT * FROM delivery_events WHERE event_id = ?
getDeliveryEvent(evs, event_id) ==
    IF event_id \in DOMAIN evs THEN evs[event_id] ELSE NULL

\* db.registerDPKey: INSERT OR REPLACE INTO dp_keys (...); status DEFAULT
\* 'active'.  The column registered_at, which nothing reads, is left out.
registerDPKey(keys, dp_id, public_key) ==
    [keys EXCEPT ![dp_id] = [dp_id |-> dp_id, public_key |-> public_key,
                             key_type |-> "secp256k1",
                             status |-> "active"]]

\* db.getDPKey: SELECT * FROM dp_keys WHERE dp_id = ? AND status = "active"
getDPKey(keys, dp_id) ==
    IF keys[ToText(dp_id)] /= NULL /\ keys[ToText(dp_id)].status = "active"
    THEN keys[ToText(dp_id)] ELSE NULL

\* canonicalizeEvent: JSON.stringify of the listed fields, in this order
\* (event_id is not among them).
canonicalizeEvent(evData) ==
    <<evData.session_id, evData.order_id, evData.customer_id,
      evData.dp_id, evData.ephemeral_token_hash,
      evData.challenge_nonce, evData.dp_signature,
      evData.evidence_hashes, evData.timestamp,
      evData.backend_received_at>>

\* ------------------------------------------------------------- requests
\* The message string of a proof bundle.  kind "json" is a string that
\* JSON.parse turns into the object with these fields; kind "text" is a
\* string JSON.parse throws on.
TextMessage ==
    [kind |-> "text", session_id |-> 0, ephemeral_token_hash |-> <<"none">>,
     challenge_nonce |-> <<"none">>, dp_id |-> "none"]

WrongTokenHash == TokenHash(<<"guess", 0>>)
BogusNonce == <<"guess", 0>>

Messages(ss, chs, dp_id) ==
    {TextMessage} \cup
    [kind : {"json"},
     session_id : SessionIds \cup DOMAIN ss,
     ephemeral_token_hash :
        {TokenHash(ss[i].ephemeral_token) : i \in DOMAIN ss} \cup {WrongTokenHash},
     challenge_nonce :
        {chs[i].challenge_nonce : i \in DOMAIN chs} \cup {BogusNonce},
     dp_id : {dp_id}]

\* signed_blob: absent, a string that is not the base64 of JSON, or the
\* base64 of JSON.stringify({message, signature}).
MissingBlob == [kind |-> "missing"]
GarbageBlob == [kind |-> "garbage"]

SignedBlobs(ss, chs, dp_id) ==
    {GarbageBlob} \cup
    UNION {
        {[kind |-> "json", message |-> m, signature |-> sig] :
            sig \in {Sign(k, m) : k \in PublicKeys} \cup {BadHexSignature}} :
        m \in Messages(ss, chs, dp_id)}

\* req.body as far as the handler has read it on arrival: the two ids and
\* whether signed_blob is there.  The handler does not look into signed_blob
\* before line 273, after its third await; the model draws the content of
\* the blob there.  A run in which the content names a nonce issued after
\* the arrival is the run of a request that arrived later: the session row
\* read on arrival has no column the handler reads that changes.
UnreadBlob == [kind |-> "unread"]

Requests ==
    [session_id : SessionIds, dp_id : DpIds,
     signed_blob : {MissingBlob, UnreadBlob}]

\* JSON.parse(Buffer.from(signed_blob, 'base64').toString('utf8')) throws
JsonParseThrows(x) == x.kind /= "json"

\* res.status(status).json({ error })
Response(status, error) ==
    [status |-> status, error |-> error, event_id |-> NULL, txHash |-> NULL]

NoResponse == Response(0, "")

\* res.json({ status: 'verified', event_id, txHash, message })
Verified(id, txHash) ==
    [status |-> 200, error |-> "", event_id |-> id, txHash |-> txHash]

\* ------------------------------------------------------ AnchorRegistry
\* The contract's storage and log as one value.
Registry == [anchored |-> anchored, emitted |-> emitted]

\* emit AnchorStored(anchorHash, ...): one more event for the hash.
Emit(em, anchorHash) ==
    [h \in DOMAIN em \cup {anchorHash} |->
        (IF h \in DOMAIN em THEN em[h] ELSE 0) + (IF h = anchorHash THEN 1 ELSE 0)]

storeAnchor_Overwrite(reg, anchorHash) ==
    IF anchorHash \in reg.anchored
    THEN [reverted |-> TRUE, anchored |-> reg.anchored, emitted |-> reg.emitted]
    ELSE [reverted |-> FALSE,
          anchored |-> {anchorHash},
          emitted |-> Emit(reg.emitted, anchorHash)]

\* AnchorRegistry.storeAnchor: require(!anchored[anchorHash]); set; emit.
\* A reverted transaction leaves storage and log as they were.
storeAnchor(reg, anchorHash) ==
    IF anchorHash \in reg.anchored
    THEN [reverted |-> TRUE, anchored |-> reg.anchored, emitted |-> reg.emitted]
    ELSE [reverted |-> FALSE,
          anchored |-> reg.anchored \cup {anchorHash},
          emitted |-> Emit(reg.emitted, anchorHash)]

isAnchored_Never(reg, anchorHash) == FALSE

\* AnchorRegistry.isAnchored
isAnchored(reg, anchorHash) == anchorHash \in reg.anchored

\* The loop of storeAnchorBatch from index i on.
RECURSIVE BatchLoop(_, _, _)
BatchLoop(reg, anchorHashes, i) ==
    IF i > Len(anchorHashes) THEN reg
    ELSE BatchLoop(
            IF anchorHashes[i] \in reg.anchored THEN reg
            ELSE [anchored |-> reg.anchored \cup {anchorHashes[i]},
                  emitted |-> Emit(reg.emitted, anchorHashes[i])],
            anchorHashes, i + 1)

storeAnchorBatch_CheckBeforeLoop(reg, anchorHashes, eventIds) ==
    IF Len(anchorHashes) /= Len(eventIds)
    THEN [reverted |-> TRUE, anchored |-> reg.anchored, emitted |-> reg.emitted]
    ELSE LET new == {i \in 1 .. Len(anchorHashes) :
                        anchorHashes[i] \notin reg.anchored}
             stored == {anchorHashes[i] : i \in new}
         IN  [reverted |-> FALSE,
              anchored |-> reg.anchored \cup stored,
              emitted |-> [h \in DOMAIN reg.emitted \cup stored |->
                    (IF h \in DOMAIN reg.emitted THEN reg.emitted[h] ELSE 0)
                    + Cardinality({i \in new : anchorHashes[i] = h})]]

storeAnchorBatch_RevertOnAnchored(reg, anchorHashes, eventIds) ==
    IF \/ Len(anchorHashes) /= Len(eventIds)
       \/ \E i \in 1 .. Len(anchorHashes) : anchorHashes[i] \in reg.anchored
    THEN [reverted |-> TRUE, anchored |-> reg.anchored, emitted |-> reg.emitted]
    ELSE LET out == BatchLoop(reg, anchorHashes, 1)
         IN  [reverted |-> FALSE, anchored |-> out.anchored,
              emitted |-> out.emitted]

\* AnchorRegistry.storeAnchorBatch: require equal lengths; then, for each
\* index in order, store and emit unless the hash is anchored by then.
storeAnchorBatch(reg, anchorHashes, eventIds) ==
    IF Len(anchorHashes) /= Len(eventIds)
    THEN [reverted |-> TRUE, anchored |-> reg.anchored, emitted |-> reg.emitted]
    ELSE LET out == BatchLoop(reg, anchorHashes, 1)
         IN  [reverted |-> FALSE, anchored |-> out.anchored,
              emitted |-> out.emitted]

\* The hashes and arrays any account may send to the registry.
LedgerHashes == {<<"0x", "a">>, <<"0x", "b">>, <<"0x", "c">>}
HashArrays == UNION {[1 .. n -> LedgerHashes] : n \in 0 .. MaxBatch}
IdArrays == UNION {[1 .. n -> {"evt"}] : n \in 0 .. MaxBatch}

\* No transaction was sent to the registry directly.
NoReceipt == [op |-> "none"]

\* ---------------------------------------------------------------- Init
Init ==
    /\ now = 0
    /\ sessions = <<>>
    /\ challenges = <<>>
    /\ dp_keys = [d \in StoredDpIds |-> NULL]
    /\ delivery_events = <<>>
    /\ anchored = {}
    /\ emitted = <<>>
    /\ receipt = NoReceipt
    /\ ledger_up = FALSE
    /\ pc = [p \in Procs |-> "idle"]
    /\ req = [p \in Procs |-> NULL]
    /\ session = [p \in Procs |-> NULL]
    /\ challenge = [p \in Procs |-> NULL]
    /\ dpKey = [p \in Procs |-> NULL]
    /\ eventData = [p \in Procs |-> NULL]
    /\ res = [p \in Procs |-> NoResponse]
    /\ submitted = [p \in Procs |-> NULL]
    /\ replayed = [p \in Procs |-> FALSE]

\* Date.now() moves on.
Tick ==
    /\ now < MaxTicks * TickMs
    /\ now' = now + TickMs
    /\ UNCHANGED <<store, ledger, pc, locals, res>>

SessionExpiry_TtlAsMs(created_at, ttl_seconds) == created_at + ttl_seconds

\* expires_at = created_at + (ttl_seconds * 1000)
SessionExpiry(created_at, ttl_seconds) == created_at + (ttl_seconds * 1000)

\* POST /api/v1/sessions
ActivateSession(customer_id, order_id, ttl_seconds) ==
    /\ Len(sessions) < MaxSessions
    /\ IF customer_id = "" \/ order_id = ""
       THEN UNCHANGED sessions
       ELSE LET session_id == Len(sessions) + 1
                created_at == now
            IN  sessions' = createSession(sessions,
                    [session_id |-> session_id,
                     customer_id |-> customer_id,
                     order_id |-> order_id,
                     ephemeral_token |-> generateToken("token", session_id),
                     token_type |-> "BLE",
                     created_at |-> created_at,
                     expires_at |-> SessionExpiry(created_at, ttl_seconds)])
    /\ UNCHANGED <<now, challenges, dp_keys, delivery_events, ledger,
                   pc, locals, res>>

\* POST /api/v1/dp/register
RegisterDP(dp_id, public_key) ==
    /\ IF getDPKey(dp_keys, dp_id) /= NULL
       THEN UNCHANGED dp_keys
       ELSE dp_keys' = registerDPKey(dp_keys, dp_id, public_key)
    /\ UNCHANGED <<now, sessions, challenges, delivery_events, ledger,
                   pc, locals, res>>

\* POST /api/v1/sessions/:session_id/challenge: the error response of the
\* handler for the rows it reads at time t, or NoResponse when it goes on to
\* create the challenge.
IssueResponse_NoStatusCheck(ss, keys, t, session_id, dp_id) ==
    LET s == getSession(ss, session_id)
    IN  IF s = NULL THEN Response(404, "Session not found")
        ELSE IF t > s.expires_at THEN Response(400, "Session expired")
        ELSE IF getDPKey(keys, dp_id) = NULL
        THEN Response(403, "Delivery partner not registered")
        ELSE NoResponse

IssueResponse_Unregistered400(ss, keys, t, session_id, dp_id) ==
    LET s == getSession(ss, session_id)
    IN  IF s = NULL THEN Response(404, "Session not found")
        ELSE IF t > s.expires_at THEN Response(400, "Session expired")
        ELSE IF s.status /= "active" THEN Response(400, "Session not active")
        ELSE IF getDPKey(keys, dp_id) = NULL
        THEN Response(400, "Delivery partner not registered")
        ELSE NoResponse

IssueResponse_NoExpiryCheck(ss, keys, t, session_id, dp_id) ==
    LET s == getSession(ss, session_id)
    IN  IF s = NULL THEN Response(404, "Session not found")
        ELSE IF s.status /= "active" THEN Response(400, "Session not active")
        ELSE IF getDPKey(keys, dp_id) = NULL
        THEN Response(403, "Delivery partner not registered")
        ELSE NoResponse

IssueResponse(ss, keys, t, session_id, dp_id) ==
    LET s == getSession(ss, session_id)
    IN  IF s = NULL THEN Response(404, "Session not found")
        ELSE IF t > s.expires_at THEN Response(400, "Session expired")
        ELSE IF s.status /= "active" THEN Response(400, "Session not active")
        ELSE IF getDPKey(keys, dp_id) = NULL
        THEN Response(403, "Delivery partner not registered")
        ELSE NoResponse

\* POST /api/v1/sessions/:session_id/challenge
IssueChallenge(session_id, dp_id) ==
    /\ Len(challenges) < MaxChallenges
    /\ IF IssueResponse(sessions, dp_keys, now, session_id, dp_id) /= NoResponse
       THEN UNCHANGED challenges
       ELSE LET challenge_id == Len(challenges) + 1
                created_at == now
            IN  challenges' = createChallenge(challenges,
                    [challenge_id |-> challenge_id,
                     session_id |-> session_id,
                     dp_id |-> dp_id,
                     challenge_nonce |-> generateToken("nonce", challenge_id),
                     created_at |-> created_at,
                     expires_at |-> created_at + ChallengeWindowMs])
    /\ UNCHANGED <<now, sessions, dp_keys, delivery_events, ledger,
                   pc, locals, res>>

\* ------------------------------------------------- POST /api/v1/deliveries
\* The handler's code between `await db.getDPKey` and `await
\* db.markChallengeUsed`: the response it returns, or NoResponse when it goes
\* on to the writes.  body is req.body, ch the challenge row and key the
\* dp_keys row the handler holds.
CheckProof(body, ch, key) ==
    IF key = NULL THEN Response(403, "Delivery partner not registered")
    ELSE IF JsonParseThrows(body.signed_blob)
    THEN Response(500, "Internal server error")
    ELSE IF ~verifySignature(key.public_key, body.signed_blob.message,
                             body.signed_blob.signature)
    THEN Response(401, "Invalid signature")
    ELSE IF JsonParseThrows(body.signed_blob.message)
    THEN Response(500, "Internal server error")
    ELSE IF \/ body.signed_blob.message.session_id /= body.session_id
            \/ body.signed_blob.message.challenge_nonce /= ch.challenge_nonce
    THEN Response(400, "Message data mismatch")
    ELSE NoResponse

\* The nonce a request body presents, NULL when the bundle or its message
\* does not parse.
PresentedNonce(body) ==
    IF JsonParseThrows(body.signed_blob) THEN NULL
    ELSE IF JsonParseThrows(body.signed_blob.message) THEN NULL
    ELSE body.signed_blob.message.challenge_nonce

\* A submission answers and ends: the locals of the handler go out of
\* scope; the request and the response stay on record.
Respond(p, body, r) ==
    /\ res' = [res EXCEPT ![p] = r]
    /\ pc' = [pc EXCEPT ![p] = "done"]
    /\ req' = [req EXCEPT ![p] = body]
    /\ session' = [session EXCEPT ![p] = NULL]
    /\ challenge' = [challenge EXCEPT ![p] = NULL]
    /\ dpKey' = [dpKey EXCEPT ![p] = NULL]
    /\ eventData' = [eventData EXCEPT ![p] = NULL]
    /\ submitted' = [submitted EXCEPT ![p] = NULL]

\* A submission goes on to its next await with these locals.
Await(p, next, body, s, c, k, e) ==
    /\ pc' = [pc EXCEPT ![p] = next]
    /\ req' = [req EXCEPT ![p] = body]
    /\ session' = [session EXCEPT ![p] = s]
    /\ challenge' = [challenge EXCEPT ![p] = c]
    /\ dpKey' = [dpKey EXCEPT ![p] = k]
    /\ eventData' = [eventData EXCEPT ![p] = e]
    /\ UNCHANGED res

\* Request arrival, the body check and `await db.getSession`.  Submission p
\* starts only after submission p - 1 has: the submissions are
\* interchangeable.
SubmitProof(p, body) ==
    /\ pc[p] = "idle"
    /\ IF p = 1 THEN TRUE ELSE pc[p - 1] /= "idle"
    /\ LET s == getSession(sessions, body.session_id)
       IN  IF body.signed_blob = MissingBlob
           THEN Respond(p, body,
                    Response(400, "session_id, dp_id, and signed_blob required"))
           ELSE IF s = NULL
           THEN Respond(p, body, Response(404, "Session not found"))
           ELSE /\ Await(p, "getChallenge", body, s, NULL, NULL, NULL)
                /\ submitted' = [submitted EXCEPT ![p] =
                        [expired |-> now > s.expires_at,
                         events |-> Len(delivery_events)]]
    /\ UNCHANGED <<now, store, ledger, replayed>>

ChallengeExpired_Never(c, t) == FALSE

\* Date.now() > challenge.expires_at
ChallengeExpired(c, t) == t > c.expires_at

\* `await db.getChallenge` and the expiry check.
GetChallenge(p) ==
    /\ pc[p] = "getChallenge"
    /\ LET rows == getChallenge(challenges, req[p].session_id, req[p].dp_id)
       IN  \E c \in (IF rows = {} THEN {NULL} ELSE rows) :
            IF c = NULL
            THEN Respond(p, req[p], Response(400, "No active challenge found"))
            ELSE IF ChallengeExpired(c, now)
            THEN Respond(p, req[p], Response(400, "Challenge expired"))
            ELSE /\ Await(p, "getDPKey", req[p], session[p], c, NULL, NULL)
                 /\ UNCHANGED submitted
    /\ UNCHANGED <<now, store, ledger, replayed>>

\* `await db.getDPKey` and the checks of the proof bundle, whose content
\* signed_blob is read here.
GetDPKeyFrom(p, blobs) ==
    /\ \E signed_blob \in blobs :
       LET body == [req[p] EXCEPT !.signed_blob = signed_blob]
           k == getDPKey(dp_keys, body.dp_id)
           r == CheckProof(body, challenge[p], k)
       IN  /\ replayed' = [replayed EXCEPT ![p] =
                \E i \in 1 .. submitted[p].events :
                    delivery_events[i].challenge_nonce = PresentedNonce(body)]
           /\ IF r /= NoResponse
              THEN Respond(p, body, r)
              ELSE /\ Await(p, "markChallengeUsed", body, session[p],
                            challenge[p], k, NULL)
                   /\ UNCHANGED submitted
    /\ UNCHANGED <<now, store, ledger>>

\* The handler at `await db.getDPKey`, the message of the bundle naming the
\* dp_id of the request.
GetDPKey(p) ==
    /\ pc[p] = "getDPKey"
    /\ GetDPKeyFrom(p, SignedBlobs(sessions, challenges, req[p].dp_id))

\* The same, the message naming any dp_id: the handler does not read
\* messageData.dp_id.
GetDPKeyAny(p) ==
    /\ pc[p] = "getDPKey"
    /\ GetDPKeyFrom(p, UNION {SignedBlobs(sessions, challenges, d) : d \in DpIds})

\* `await db.markChallengeUsed(challenge.challenge_id)`
MarkChallengeUsed(p) ==
    /\ pc[p] = "markChallengeUsed"
    /\ challenges' = markChallengeUsed(challenges, challenge[p].challenge_id)
    /\ pc' = [pc EXCEPT ![p] = "createDeliveryEvent"]
    /\ UNCHANGED <<now, sessions, dp_keys, delivery_events, ledger,
                   locals, res>>

\* The eventData object and `await db.createDeliveryEvent(eventData)`
CreateDeliveryEvent(p) ==
    /\ pc[p] = "createDeliveryEvent"
    /\ LET e == [event_id |-> Len(delivery_events) + 1,
                 session_id |-> req[p].session_id,
                 order_id |-> session[p].order_id,
                 customer_id |-> session[p].customer_id,
                 dp_id |-> req[p].dp_id,
                 ephemeral_token_hash |-> TokenHash(session[p].ephemeral_token),
                 challenge_nonce |-> challenge[p].challenge_nonce,
                 dp_signature |-> req[p].signed_blob.signature,
                 evidence_hashes |-> "[]",
                 timestamp |-> now,
                 backend_received_at |-> now]
       IN  /\ delivery_events' = createDeliveryEvent(delivery_events, e)
           /\ Await(p, "updateSessionStatus", req[p], session[p],
                    challenge[p], dpKey[p], e)
    /\ UNCHANGED <<now, sessions, challenges, dp_keys, ledger,
                   submitted, replayed>>

\* `await db.updateSessionStatus(session_id, 'completed')`
UpdateSessionStatus(p) ==
    /\ pc[p] = "updateSessionStatus"
    /\ sessions' = updateSessionStatus(sessions, req[p].session_id, "completed")
    /\ pc' = [pc EXCEPT ![p] = "anchor"]
    /\ UNCHANGED <<now, challenges, dp_keys, delivery_events, ledger,
                   locals, res>>

Anchor_FailureRejects(p, ledgerUp) ==
    /\ pc[p] = "anchor"
    /\ LET anchor_hash == <<"0x", hashString(canonicalizeEvent(eventData[p]))>>
           txHash == <<"tx", anchor_hash>>
           tx == storeAnchor(Registry, anchor_hash)
       IN  IF ledgerUp /\ ~tx.reverted
           THEN /\ anchored' = tx.anchored
                /\ emitted' = tx.emitted
                /\ delivery_events' = updateEventAnchor(delivery_events,
                        eventData[p].event_id, anchor_hash, txHash, now)
                /\ Respond(p, req[p], Verified(eventData[p].event_id, txHash))
           ELSE /\ UNCHANGED <<anchored, emitted, delivery_events>>
                /\ Respond(p, req[p], Response(500, "Internal server error"))
    /\ UNCHANGED <<now, sessions, challenges, dp_keys, replayed,
                   receipt, ledger_up>>

Anchor_MarkWithoutLedger(p, ledgerUp) ==
    /\ pc[p] = "anchor"
    /\ LET anchor_hash == <<"0x", hashString(canonicalizeEvent(eventData[p]))>>
           txHash == <<"tx", anchor_hash>>
           tx == storeAnchor(Registry, anchor_hash)
       IN  /\ delivery_events' = updateEventAnchor(delivery_events,
                    eventData[p].event_id, anchor_hash, txHash, now)
           /\ IF ledgerUp /\ ~tx.reverted
              THEN /\ anchored' = tx.anchored
                   /\ emitted' = tx.emitted
                   /\ Respond(p, req[p], Verified(eventData[p].event_id, txHash))
              ELSE /\ UNCHANGED <<anchored, emitted>>
                   /\ Respond(p, req[p], Verified(eventData[p].event_id, NULL))
    /\ UNCHANGED <<now, sessions, challenges, dp_keys, replayed,
                   receipt, ledger_up>>

\* The anchoring block and the response.  ledgerUp is whether `contract` is
\* set and its RPC answers; storeAnchor reverts on a hash already anchored,
\* and every failure is caught and logged.
Anchor(p, ledgerUp) ==
    /\ pc[p] = "anchor"
    /\ LET anchor_hash == <<"0x", hashString(canonicalizeEvent(eventData[p]))>>
           txHash == <<"tx", anchor_hash>>
           tx == storeAnchor(Registry, anchor_hash)
       IN  IF ledgerUp /\ ~tx.reverted
           THEN /\ anchored' = tx.anchored
                /\ emitted' = tx.emitted
                /\ delivery_events' = updateEventAnchor(delivery_events,
                        eventData[p].event_id, anchor_hash, txHash, now)
                /\ Respond(p, req[p], Verified(eventData[p].event_id, txHash))
           ELSE /\ UNCHANGED <<anchored, emitted, delivery_events>>
                /\ Respond(p, req[p], Verified(eventData[p].event_id, NULL))
    /\ UNCHANGED <<now, sessions, challenges, dp_keys, replayed,
                   receipt, ledger_up>>

\* An awaited write of the handler rejects (the database is busy, full or
\* gone): the table is left as it was, the handler's catch answers 500.  The
\* writes before it stay.
WriteFails(p) ==
    /\ pc[p] \in {"markChallengeUsed", "createDeliveryEvent", "updateSessionStatus"}
    /\ Respond(p, req[p], Response(500, "Internal server error"))
    /\ UNCHANGED <<now, store, ledger, replayed>>

Next ==
    \/ Tick
    \/ \E c \in CustomerIds, o \in OrderIds, t \in TtlChoices :
            ActivateSession(c, o, t)
    \/ \E d \in DpIds : RegisterDP(d, KeyOf(d))
    \/ \E s \in SessionIds, d \in DpIds : IssueChallenge(s, d)
    \/ \E p \in Procs, body \in Requests : SubmitProof(p, body)
    \/ \E p \in Procs : GetChallenge(p)
    \/ \E p \in Procs : GetDPKey(p)
    \/ \E p \in Procs : MarkChallengeUsed(p)
    \/ \E p \in Procs : CreateDeliveryEvent(p)
    \/ \E p \in Procs : UpdateSessionStatus(p)
    \/ \E p \in Procs, ledgerUp \in BOOLEAN : Anchor(p, ledgerUp)

Spec == Init /\ [][Next]_vars

\* Submissions one after the other: a submission arrives only when no other
\* is in flight.
Sequential(p) ==
    \A q \in Procs \ {p} : pc[q] \in {"idle", "done"}

SubmitProofSeq(p, body) ==
    Sequential(p) /\ SubmitProof(p, body)

NextSeq ==
    \/ Tick
    \/ \E c \in CustomerIds, o \in OrderIds, t \in TtlChoices :
            ActivateSession(c, o, t)
    \/ \E d \in DpIds : RegisterDP(d, KeyOf(d))
    \/ \E s \in SessionIds, d \in DpIds : IssueChallenge(s, d)
    \/ \E p \in Procs, body \in Requests : SubmitProofSeq(p, body)
    \/ \E p \in Procs : GetChallenge(p)
    \/ \E p \in Procs : GetDPKey(p)
    \/ \E p \in Procs : MarkChallengeUsed(p)
    \/ \E p \in Procs : CreateDeliveryEvent(p)
    \/ \E p \in Procs : UpdateSessionStatus(p)
    \/ \E p \in Procs, ledgerUp \in BOOLEAN : Anchor(p, ledgerUp)

SpecSeq == Init /\ [][NextSeq]_vars

\* The server with a record store whose writes may fail.
NextFault ==
    \/ Tick
    \/ \E c \in CustomerIds, o \in OrderIds, t \in TtlChoices :
            ActivateSession(c, o, t)
    \/ \E d \in DpIds : RegisterDP(d, KeyOf(d))
    \/ \E s \in SessionIds, d \in DpIds : IssueChallenge(s, d)
    \/ \E p \in Procs, body \in Requests : SubmitProof(p, body)
    \/ \E p \in Procs : GetChallenge(p)
    \/ \E p \in Procs : GetDPKey(p)
    \/ \E p \in Procs : MarkChallengeUsed(p)
    \/ \E p \in Procs : CreateDeliveryEvent(p)
    \/ \E p \in Procs : UpdateSessionStatus(p)
    \/ \E p \in Procs, ledgerUp \in BOOLEAN : Anchor(p, ledgerUp)
    \/ \E p \in Procs : WriteFails(p)

SpecFault == Init /\ [][NextFault]_vars

\* POST /api/v1/dp/register as the two awaits it is, for a well-formed dp_id
\* and public_key: `await db.getDPKey(dp_id)` and the duplicate check.
RegisterCheck(p, dp_id, public_key) ==
    /\ pc[p] = "idle"
    /\ IF p = 1 THEN TRUE ELSE pc[p - 1] /= "idle"
    /\ LET body == [dp_id |-> dp_id, public_key |-> public_key]
       IN  IF getDPKey(dp_keys, dp_id) /= NULL
           THEN Respond(p, body, Response(409, "DP already registered"))
           ELSE /\ Await(p, "registerDPKey", body, NULL, NULL, NULL, NULL)
                /\ UNCHANGED submitted
    /\ UNCHANGED <<now, store, ledger, replayed>>

\* res.json({ status: 'registered', dp_id, message })
Registered == Response(200, "")

\* `await db.registerDPKey(dp_id, trimmedKey)` and the response.
RegisterWrite(p) ==
    /\ pc[p] = "registerDPKey"
    /\ dp_keys' = registerDPKey(dp_keys, req[p].dp_id, req[p].public_key)
    /\ Respond(p, req[p], Registered)
    /\ UNCHANGED <<now, sessions, challenges, delivery_events, ledger,
                   replayed>>

\* Registration requests with any key, next to activation and issue.
NextReg ==
    \/ Tick
    \/ \E c \in CustomerIds, o \in OrderIds, t \in TtlChoices :
            ActivateSession(c, o, t)
    \/ \E s \in SessionIds, d \in DpIds : IssueChallenge(s, d)
    \/ \E p \in Procs, d \in DpIds, k \in PublicKeys : RegisterCheck(p, d, k)
    \/ \E p \in Procs : RegisterWrite(p)

SpecReg == Init /\ [][NextReg]_vars

\* A transaction calling storeAnchor, sent by any account.
StoreAnchor(anchorHash) ==
    LET tx == storeAnchor(Registry, anchorHash)
    IN  /\ anchored' = tx.anchored
        /\ emitted' = tx.emitted
        /\ receipt' = [op |-> "storeAnchor", anchorHashes |-> <<anchorHash>>,
                       eventIds |-> <<"evt">>, reverted |-> tx.reverted]
        /\ UNCHANGED <<now, store, ledger_up, pc, locals, res>>

\* A transaction calling storeAnchorBatch, sent by any account.
StoreAnchorBatch(anchorHashes, eventIds) ==
    LET tx == storeAnchorBatch(Registry, anchorHashes, eventIds)
    IN  /\ anchored' = tx.anchored
        /\ emitted' = tx.emitted
        /\ receipt' = [op |-> "storeAnchorBatch", anchorHashes |-> anchorHashes,
                       eventIds |-> eventIds, reverted |-> tx.reverted]
        /\ UNCHANGED <<now, store, ledger_up, pc, locals, res>>

\* Requests whose dp_id is a JSON string or a JSON number.
TypedRequests ==
    [session_id : SessionIds, dp_id : TypedDpIds,
     signed_blob : {MissingBlob, UnreadBlob}]

\* The server with a delivery partner whose id is a string of digits,
\* submissions one after the other.
NextTyped ==
    \/ Tick
    \/ \E c \in CustomerIds, o \in OrderIds, t \in TtlChoices :
            ActivateSession(c, o, t)
    \/ RegisterDP("7", KeyOf("7"))
    \/ \E s \in SessionIds, d \in TypedDpIds : IssueChallenge(s, d)
    \/ \E p \in Procs, body \in TypedRequests : SubmitProofSeq(p, body)
    \/ \E p \in Procs : GetChallenge(p)
    \/ \E p \in Procs : GetDPKey(p)
    \/ \E p \in Procs : MarkChallengeUsed(p)
    \/ \E p \in Procs : CreateDeliveryEvent(p)
    \/ \E p \in Procs : UpdateSessionStatus(p)
    \/ \E p \in Procs, ledgerUp \in BOOLEAN : Anchor(p, ledgerUp)

SpecTyped == Init /\ [][NextTyped]_vars

\* The RPC node of the ledger starts to answer, and answers from then on.
LedgerComesUp ==
    /\ ~ledger_up
    /\ ledger_up' = TRUE
    /\ UNCHANGED <<now, store, anchored, emitted, receipt, pc, locals, res>>

\* The anchoring block against the ledger as it is at that moment.
AnchorNow(p) ==
    /\ pc[p] = "anchor"
    /\ Anchor(p, ledger_up)

\* What the server does by itself once a submission has arrived: the event
\* loop runs every continuation that is ready.
ServerSteps ==
    \E p \in Procs :
        \/ GetChallenge(p)
        \/ GetDPKey(p)
        \/ MarkChallengeUsed(p)
        \/ CreateDeliveryEvent(p)
        \/ UpdateSessionStatus(p)
        \/ AnchorNow(p)

\* The server with a ledger that is down at first and, once up, stays up;
\* one delivery partner, submissions one after the other, within one tick
\* of the clock.
NextRetry ==
    \/ \E c \in CustomerIds, o \in OrderIds, t \in TtlChoices :
            ActivateSession(c, o, t)
    \/ RegisterDP("dp_1", KeyOf("dp_1"))
    \/ \E s \in SessionIds : IssueChallenge(s, "dp_1")
    \/ \E p \in Procs, body \in Requests : SubmitProofSeq(p, body)
    \/ \E p \in Procs : GetChallenge(p)
    \/ \E p \in Procs : GetDPKey(p)
    \/ \E p \in Procs : MarkChallengeUsed(p)
    \/ \E p \in Procs : CreateDeliveryEvent(p)
    \/ \E p \in Procs : UpdateSessionStatus(p)
    \/ \E p \in Procs : AnchorNow(p)
    \/ LedgerComesUp

\* Every handler that has started runs to its response, and the ledger does
\* come up.
SpecRetry ==
    /\ Init
    /\ [][NextRetry]_vars
    /\ WF_vars(ServerSteps)
    /\ WF_vars(LedgerComesUp)

\* ------------------------------- GET /api/v1/deliveries/:event_id/verify
\* res.status(404).json({ error: 'Event not found' })
EventNotFound == [status |-> 404, body |-> [error |-> "Event not found"]]

VerifyReport_Confirmed(event, blockchainVerified) ==
    [status |-> 200,
     body |-> [event_id |-> event.event_id,
               session_id |-> event.session_id,
               order_id |-> event.order_id,
               dp_id |-> event.dp_id,
               timestamp |-> event.timestamp,
               status |-> event.status,
               tx_hash |-> event.tx_hash,
               anchor_hash |-> event.anchor_hash,
               anchored_at |-> event.anchored_at,
               blockchain_verified |-> TRUE]]

\* res.json({ event_id, ..., blockchain_verified: blockchainVerified }): the
\* columns of the row as read and the answer of the ledger.
VerifyReport(event, blockchainVerified) ==
    [status |-> 200,
     body |-> [event_id |-> event.event_id,
               session_id |-> event.session_id,
               order_id |-> event.order_id,
               dp_id |-> event.dp_id,
               timestamp |-> event.timestamp,
               status |-> event.status,
               tx_hash |-> event.tx_hash,
               anchor_hash |-> event.anchor_hash,
               anchored_at |-> event.anchored_at,
               blockchain_verified |-> blockchainVerified]]

\* `await db.getDeliveryEvent` and the code up to `await
\* contract.isAnchored`.  A row without anchor_hash is answered at once,
\* blockchainVerified false; so is any row when `contract` is not set, which
\* VerifyLedger answers in the same way with the ledger down.
VerifyRead(p, event_id) ==
    /\ pc[p] = "idle"
    /\ IF p = 1 THEN TRUE ELSE pc[p - 1] /= "idle"
    /\ LET event == getDeliveryEvent(delivery_events, event_id)
           params == [event_id |-> event_id]
       IN  IF event = NULL
           THEN Respond(p, params, EventNotFound)
           ELSE IF event.anchor_hash = NULL
           THEN Respond(p, params, VerifyReport(event, FALSE))
           ELSE /\ Await(p, "isAnchored", params, NULL, NULL, NULL, event)
                /\ UNCHANGED submitted
    /\ UNCHANGED <<now, store, ledger, replayed>>

VerifyLedger_FailsWhenDown(p) ==
    /\ pc[p] = "isAnchored"
    /\ Respond(p, req[p],
            IF ledger_up
            THEN VerifyReport(eventData[p],
                    isAnchored(Registry, eventData[p].anchor_hash))
            ELSE [status |-> 500, body |-> [error |-> "Internal server error"]])
    /\ UNCHANGED <<now, store, ledger, replayed>>

\* `await contract.isAnchored(event.anchor_hash)`: the mapping's value, or a
\* throw that is caught and leaves blockchainVerified false.
VerifyLedger(p) ==
    /\ pc[p] = "isAnchored"
    /\ Respond(p, req[p],
            VerifyReport(eventData[p],
                ledger_up /\ isAnchored(Registry, eventData[p].anchor_hash)))
    /\ UNCHANGED <<now, store, ledger, replayed>>

\* The RPC node of the ledger stops answering.
LedgerGoesDown ==
    /\ ledger_up
    /\ ledger_up' = FALSE
    /\ UNCHANGED <<now, store, anchored, emitted, receipt, pc, locals, res>>

\* Someone with access to the database file rewrites order_id in a stored
\* event that has been anchored.
Tamper(event_id) ==
    /\ event_id \in DOMAIN delivery_events
    /\ delivery_events[event_id].status = "anchored"
    /\ delivery_events[event_id].order_id /= "ord_x"
    /\ delivery_events' =
            [delivery_events EXCEPT ![event_id].order_id = "ord_x"]
    /\ UNCHANGED <<now, sessions, challenges, dp_keys, ledger,
                   pc, locals, res>>

\* The server with its read path, a ledger that comes and goes and a
\* database that may be edited; submissions one after the other.
NextVerify ==
    \/ \E c \in CustomerIds, o \in OrderIds, t \in TtlChoices :
            ActivateSession(c, o, t)
    \/ RegisterDP("dp_1", KeyOf("dp_1"))
    \/ \E s \in SessionIds, d \in DpIds : IssueChallenge(s, d)
    \/ \E p \in Procs, body \in Requests : SubmitProofSeq(p, body)
    \/ \E p \in Procs : GetChallenge(p)
    \/ \E p \in Procs : GetDPKey(p)
    \/ \E p \in Procs : MarkChallengeUsed(p)
    \/ \E p \in Procs : CreateDeliveryEvent(p)
    \/ \E p \in Procs : UpdateSessionStatus(p)
    \/ \E p \in Procs : AnchorNow(p)
    \/ LedgerComesUp
    \/ LedgerGoesDown
    \/ \E i \in 1 .. MaxProofs : Tamper(i)
    \/ \E p \in Procs, i \in 1 .. MaxProofs : VerifyRead(p, i)
    \/ \E p \in Procs : VerifyLedger(p)

SpecVerify == Init /\ [][NextVerify]_vars

\* ------------- POST /api/v1/sessions/:session_id/challenge, await by await
\* res.json({ challenge_nonce, expires_at })
ChallengeIssued(challenge_nonce, expires_at) ==
    [status |-> 200, challenge_nonce |-> challenge_nonce,
     expires_at |-> expires_at]

\* `await db.getSession` and the checks of the session row.
IssueRead(p, session_id, dp_id) ==
    /\ pc[p] = "idle"
    /\ IF p = 1 THEN TRUE ELSE pc[p - 1] /= "idle"
    /\ LET s == getSession(sessions, session_id)
           params == [session_id |-> session_id, dp_id |-> dp_id]
       IN  IF s = NULL
           THEN Respond(p, params, Response(404, "Session not found"))
           ELSE IF now > s.expires_at
           THEN Respond(p, params, Response(400, "Session expired"))
           ELSE IF s.status /= "active"
           THEN Respond(p, params, Response(400, "Session not active"))
           ELSE /\ Await(p, "issueGetDPKey", params, s, NULL, NULL, NULL)
                /\ UNCHANGED submitted
    /\ UNCHANGED <<now, store, ledger, replayed>>

\* `await db.getDPKey`, the check of the key and the challenge data.
IssueGetDPKey(p) ==
    /\ pc[p] = "issueGetDPKey"
    /\ LET k == getDPKey(dp_keys, req[p].dp_id)
       IN  IF k = NULL
           THEN Respond(p, req[p],
                    Response(403, "Delivery partner not registered"))
           ELSE /\ Await(p, "createChallenge", req[p], session[p],
                         [created_at |-> now,
                          expires_at |-> now + ChallengeWindowMs],
                         k, NULL)
                /\ UNCHANGED submitted
    /\ UNCHANGED <<now, store, ledger, replayed>>

\* `await db.createChallenge` and the response.
IssueWrite(p) ==
    /\ pc[p] = "createChallenge"
    /\ Len(challenges) < MaxChallenges
    /\ LET challenge_id == Len(challenges) + 1
           challenge_nonce == generateToken("nonce", challenge_id)
       IN  /\ challenges' = createChallenge(challenges,
                    [challenge_id |-> challenge_id,
                     session_id |-> req[p].session_id,
                     dp_id |-> req[p].dp_id,
                     challenge_nonce |-> challenge_nonce,
                     created_at |-> challenge[p].created_at,
                     expires_at |-> challenge[p].expires_at])
           /\ Respond(p, req[p],
                    ChallengeIssued(challenge_nonce, challenge[p].expires_at))
    /\ UNCHANGED <<now, sessions, dp_keys, delivery_events, ledger, replayed>>

\* The server with an issue request whose awaits other requests may run
\* between; IssueChallenge is an issue request that nothing runs between.
NextIssueRace ==
    \/ \E c \in CustomerIds, o \in OrderIds, t \in TtlChoices :
            ActivateSession(c, o, t)
    \/ \E d \in DpIds : RegisterDP(d, KeyOf(d))
    \/ \E s \in SessionIds, d \in DpIds : IssueChallenge(s, d)
    \/ \E p \in Procs, s \in SessionIds, d \in DpIds : IssueRead(p, s, d)
    \/ \E p \in Procs : IssueGetDPKey(p)
    \/ \E p \in Procs : IssueWrite(p)
    \/ \E p \in Procs, body \in Requests : SubmitProofSeq(p, body)
    \/ \E p \in Procs : GetChallenge(p)
    \/ \E p \in Procs : GetDPKey(p)
    \/ \E p \in Procs : MarkChallengeUsed(p)
    \/ \E p \in Procs : CreateDeliveryEvent(p)
    \/ \E p \in Procs : UpdateSessionStatus(p)
    \/ \E p \in Procs, ledgerUp \in BOOLEAN : Anchor(p, ledgerUp)

SpecIssueRace == Init /\ [][NextIssueRace]_vars

\* The server with bundles whose message names any delivery partner;
\* submissions one after the other.
NextMsg ==
    \/ \E c \in CustomerIds, o \in OrderIds, t \in TtlChoices :
            ActivateSession(c, o, t)
    \/ \E d \in DpIds : RegisterDP(d, KeyOf(d))
    \/ \E s \in SessionIds, d \in DpIds : IssueChallenge(s, d)
    \/ \E p \in Procs, body \in Requests : SubmitProofSeq(p, body)
    \/ \E p \in Procs : GetChallenge(p)
    \/ \E p \in Procs : GetDPKeyAny(p)
    \/ \E p \in Procs : MarkChallengeUsed(p)
    \/ \E p \in Procs : CreateDeliveryEvent(p)
    \/ \E p \in Procs : UpdateSessionStatus(p)
    \/ \E p \in Procs, ledgerUp \in BOOLEAN : Anchor(p, ledgerUp)

SpecMsg == Init /\ [][NextMsg]_vars

\* POST /api/v1/sessions, for up to MaxPairSessions sessions.
ActivateForPair(customer_id, order_id, ttl_seconds) ==
    /\ Len(sessions) < MaxPairSessions
    /\ IF customer_id = "" \/ order_id = ""
       THEN UNCHANGED sessions
       ELSE LET session_id == Len(sessions) + 1
                created_at == now
            IN  sessions' = createSession(sessions,
                    [session_id |-> session_id,
                     customer_id |-> customer_id,
                     order_id |-> order_id,
                     ephemeral_token |-> generateToken("token", session_id),
                     token_type |-> "BLE",
                     created_at |-> created_at,
                     expires_at |-> SessionExpiry(created_at, ttl_seconds)])
    /\ UNCHANGED <<now, challenges, dp_keys, delivery_events, ledger,
                   pc, locals, res>>

PairSessionIds == 1 .. MaxPairSessions

PairRequests ==
    [session_id : PairSessionIds, dp_id : {"dp_1"},
     signed_blob : {MissingBlob, UnreadBlob}]

\* The server with two sessions of one customer and order and one delivery
\* partner, the requests for the two sessions interleaved.
NextPair ==
    \/ \E c \in CustomerIds, o \in OrderIds, t \in TtlChoices :
            ActivateForPair(c, o, t)
    \/ RegisterDP("dp_1", KeyOf("dp_1"))
    \/ \E s \in PairSessionIds : IssueChallenge(s, "dp_1")
    \/ \E p \in Procs, body \in PairRequests : SubmitProof(p, body)
    \/ \E p \in Procs : GetChallenge(p)
    \/ \E p \in Procs : GetDPKey(p)
    \/ \E p \in Procs : MarkChallengeUsed(p)
    \/ \E p \in Procs : CreateDeliveryEvent(p)
    \/ \E p \in Procs : UpdateSessionStatus(p)
    \/ \E p \in Procs, ledgerUp \in BOOLEAN : Anchor(p, ledgerUp)

SpecPair == Init /\ [][NextPair]_vars

\* The registry under the transactions of any account.
NextLedger ==
    \/ \E h \in LedgerHashes : StoreAnchor(h)
    \/ \E hs \in HashArrays, ids \in IdArrays : StoreAnchorBatch(hs, ids)

SpecLedger == Init /\ [][NextLedger]_vars

\* Activation, registration and issue with ttl_seconds as any number.
NextTtl ==
    \/ Tick
    \/ \E c \in CustomerIds, o \in OrderIds, t \in AnyTtlChoices :
            ActivateSession(c, o, t)
    \/ \E d \in DpIds : RegisterDP(d, KeyOf(d))
    \/ \E s \in SessionIds, d \in DpIds : IssueChallenge(s, d)

SpecTtl == Init /\ [][NextTtl]_vars

\* ------------------------------------------------------------- properties
\* The stages of a submission that has passed every check.
WriteStages ==
    {"markChallengeUsed", "createDeliveryEvent", "updateSessionStatus", "anchor"}

\* The failure kind of section 4.3 that a response of the handler stands for.
FailureKind(r) ==
    CASE r.error = "session_id, dp_id, and signed_blob required" -> "MalformedProof"
      [] r.error = "Session not found" -> "SessionInvalid"
      [] r.error = "No active challenge found" -> "ChallengeInvalid"
      [] r.error = "Challenge expired" -> "ChallengeInvalid"
      [] r.error = "Message data mismatch" -> "ChallengeInvalid"
      [] r.error = "Delivery partner not registered" -> "ActorNotRegistered"
      [] r.error = "Invalid signature" -> "SignatureInvalid"
      [] r.error = "Internal server error" -> "Generic"
      [] OTHER -> "None"

Rejected(p) == pc[p] = "done" /\ res[p].status /= 200
Succeeded(p) == pc[p] = "done" /\ res[p].status = 200

\* The bundle of a request was read and parsed, and so was its message.
Parsed(body) ==
    /\ body.signed_blob.kind = "json"
    /\ body.signed_blob.message.kind = "json"

\* The signature of a parsed bundle is one made over its message with the
\* key registered for the submitting actor.
SignedByActor(body) ==
    /\ dp_keys[body.dp_id] /= NULL
    /\ dp_keys[body.dp_id].status = "active"
    /\ body.signed_blob.signature.hex
    /\ body.signed_blob.signature.signer = dp_keys[body.dp_id].public_key
    /\ body.signed_blob.signature.over = <<"sha256hex", body.signed_blob.message>>

\* C1: two submissions racing on one unused challenge yield one success and
\* one challenge failure: in every reachable state at most one delivery
\* event carries the nonce of any one challenge.
C1_OneEventPerChallenge ==
    \A i, j \in DOMAIN delivery_events :
        delivery_events[i].challenge_nonce = delivery_events[j].challenge_nonce
            => i = j

\* C2: a submission that arrives after a delivery event was minted for the
\* nonce it presents is rejected with a challenge failure and goes on to no
\* write.
C2_ReplayIsChallengeInvalid ==
    \A p \in Procs :
        replayed[p] => Rejected(p) /\ FailureKind(res[p]) = "ChallengeInvalid"

\* The part of C2 the handler keeps: a submission that arrives after a
\* delivery event was minted for the nonce it presents never gets past the
\* checks, and is answered with a challenge failure when its signature is
\* one by the submitting actor over its message.
ReplayNeverMints ==
    \A p \in Procs :
        replayed[p] =>
            /\ Rejected(p)
            /\ SignedByActor(req[p]) => FailureKind(res[p]) = "ChallengeInvalid"

\* C3: whatever was activated, issued and submitted, one after the other,
\* every session has at most one delivery event.
C3_OneEventPerSession ==
    \A i, j \in DOMAIN delivery_events :
        delivery_events[i].session_id = delivery_events[j].session_id
            => i = j

\* C4: a submission that arrived after its session's expires_at does not
\* pass the checks.
C4_ExpiredSessionRejected ==
    \A p \in Procs : pc[p] \in WriteStages => ~submitted[p].expired

\* C5: a submission for a session that was not active when it arrived does
\* not pass the checks.
C5_InactiveSessionRejected ==
    \A p \in Procs : pc[p] \in WriteStages => session[p].status = "active"

\* C6: a submission whose message embeds another hash than that of the
\* session's ephemeral token does not pass the checks.
C6_SecretMismatchRejected ==
    \A p \in Procs :
        pc[p] \in WriteStages =>
            req[p].signed_blob.message.ephemeral_token_hash
                = <<"sha256:", <<"sha256hex", session[p].ephemeral_token>>>>

\* The messages a delivery event may stand for: the event keeps the ids and
\* the nonce of the message, not the hash it embedded.
MessagesOf(ev) ==
    {m \in Messages(sessions, challenges, ev.dp_id) :
        /\ m.kind = "json"
        /\ m.session_id = ev.session_id
        /\ m.challenge_nonce = ev.challenge_nonce}

\* C7: a submission passes the checks only with a signature made over its
\* exact message with the active key registered for its actor; every
\* delivery event carries such a signature, and every used challenge was
\* used by such a submission presenting its nonce.
C7_MintOnlyIfSigned ==
    /\ \A p \in Procs :
        (pc[p] \in WriteStages \/ Succeeded(p)) =>
            Parsed(req[p]) /\ SignedByActor(req[p])
    /\ \A i \in DOMAIN delivery_events :
        LET ev == delivery_events[i]
        IN  /\ dp_keys[ev.dp_id] /= NULL
            /\ ev.dp_signature.hex
            /\ ev.dp_signature.signer = dp_keys[ev.dp_id].public_key
            /\ \E m \in MessagesOf(ev) : ev.dp_signature.over = <<"sha256hex", m>>
    /\ \A c \in DOMAIN challenges :
        challenges[c].used = 1 =>
            \E p \in Procs :
                /\ pc[p] \in (WriteStages \ {"markChallengeUsed"}) \/ Succeeded(p)
                /\ req[p].session_id = challenges[c].session_id
                /\ req[p].dp_id = challenges[c].dp_id
                /\ SignedByActor(req[p])
                /\ req[p].signed_blob.message.challenge_nonce
                        = challenges[c].challenge_nonce

\* A submission signed with another key than the registered one was answered
\* "Invalid signature" while its challenge stayed unused, and one signed
\* with the registered key was verified.
C7_Witness ==
    \E p, q \in Procs :
        /\ Rejected(p) /\ res[p].error = "Invalid signature"
        /\ Parsed(req[p])
        /\ req[p].signed_blob.signature.hex
        /\ req[p].signed_blob.signature.signer /= dp_keys[req[p].dp_id].public_key
        /\ \E c \in DOMAIN challenges :
            /\ challenges[c].used = 0
            /\ challenges[c].challenge_nonce
                    = req[p].signed_blob.message.challenge_nonce
        /\ Succeeded(q)
        /\ Len(delivery_events) = 1

\* C8: the failure reported is that of the first failing check in the order
\* structural, session, challenge, secret, signature.  A well-formed proof
\* for an active, unexpired session that presents a nonce no challenge has
\* and carries a signature that does not verify is answered with the
\* challenge failure.
C8_FirstFailureReported ==
    \A p \in Procs :
        ( /\ pc[p] = "done"
          /\ Parsed(req[p])
          /\ sessions[req[p].session_id].status = "active"
          /\ now <= sessions[req[p].session_id].expires_at
          /\ \A c \in DOMAIN challenges :
                challenges[c].challenge_nonce
                    /= req[p].signed_blob.message.challenge_nonce
          /\ ~SignedByActor(req[p]) )
        => FailureKind(res[p]) = "ChallengeInvalid"

\* C9: a submission whose bundle does not decode, or whose message does not
\* parse, is answered with the typed malformed-proof failure and leaves the
\* record store as it was.
C9_MalformedIsTyped ==
    \A p \in Procs :
        ( /\ pc[p] = "done"
          /\ req[p].signed_blob.kind \notin {"missing", "unread"}
          /\ ~Parsed(req[p]) )
        => FailureKind(res[p]) = "MalformedProof"

\* A step in which submission p is answered with a failure.
Rejects(p) ==
    pc[p] /= "done" /\ pc'[p] = "done" /\ res'[p].status /= 200

C11_WritesAllOrNothing ==
    (\A p \in Procs : pc[p] \in {"idle", "done"}) =>
        /\ \A c \in DOMAIN challenges :
            challenges[c].used = 1 <=>
                Cardinality({i \in DOMAIN delivery_events :
                    delivery_events[i].challenge_nonce
                        = challenges[c].challenge_nonce}) = 1
        /\ \A s \in DOMAIN sessions :
            sessions[s].status = "completed" <=>
                \E i \in DOMAIN delivery_events :
                    delivery_events[i].session_id = sessions[s].session_id

\* The ids an issue-challenge request may name: those of the sessions there
\* may be, among them ids no session has yet.
IssueInputs == SessionIds \X DpIds

C13_IssueStatus400 ==
    \A i \in IssueInputs :
        LET r == IssueResponse(sessions, dp_keys, now, i[1], i[2])
        IN  /\ r.error = "Session not found" => r.status = 404
            /\ r.error \in {"Session expired", "Session not active",
                            "Delivery partner not registered"} => r.status = 400

\* C13, amended: 404 when the session is not found, 400 when it is expired
\* and when it is not active, 403 when the actor is unregistered.
C13_IssueStatus403 ==
    \A i \in IssueInputs :
        LET s == getSession(sessions, i[1])
            r == IssueResponse(sessions, dp_keys, now, i[1], i[2])
        IN  /\ s = NULL => r.status = 404
            /\ (s /= NULL /\ (now > s.expires_at \/ s.status /= "active"))
                    => r.status = 400
            /\ (s /= NULL /\ now <= s.expires_at /\ s.status = "active"
                    /\ dp_keys[i[2]] = NULL) => r.status = 403

\* An active, unexpired session for which one actor holds a challenge and
\* the other is not registered and is answered 403.
C13_Witness ==
    /\ Len(challenges) >= 1
    /\ sessions[1].status = "active" /\ now <= sessions[1].expires_at
    /\ dp_keys["dp_2"] = NULL
    /\ IssueResponse(sessions, dp_keys, now, 1, "dp_2").status = 403

\* C14: the challenge a submission selects is a stored, unused challenge of
\* the submission's (session_id, dp_id) whose created_at no unused challenge
\* of the pair exceeds; "No active challenge found" is answered only when
\* the pair has no unused challenge; and a step that adds a challenge leaves
\* every earlier row as it was.
C14_LatestUnusedSelected ==
    [][ /\ \A p \in Procs :
            (pc[p] = "getChallenge" /\ pc'[p] = "getDPKey") =>
                LET c == challenge'[p]
                IN  /\ c.challenge_id \in DOMAIN challenges
                    /\ challenges[c.challenge_id] = c
                    /\ c.used = 0
                    /\ c.session_id = req[p].session_id
                    /\ c.dp_id = req[p].dp_id
                    /\ \A j \in DOMAIN challenges :
                        ( /\ challenges[j].session_id = c.session_id
                          /\ challenges[j].dp_id = c.dp_id
                          /\ challenges[j].used = 0 )
                        => challenges[j].created_at <= c.created_at
        /\ \A p \in Procs :
            ( /\ pc[p] = "getChallenge" /\ pc'[p] = "done"
              /\ res'[p].error = "No active challenge found" ) =>
                \A j \in DOMAIN challenges :
                    ( /\ challenges[j].session_id = req[p].session_id
                      /\ challenges[j].dp_id = req[p].dp_id )
                    => challenges[j].used = 1
        /\ Len(challenges') >= Len(challenges)
        /\ Len(challenges') > Len(challenges) =>
            \A j \in DOMAIN challenges : challenges'[j] = challenges[j]
      ]_vars

\* A submission holds the later of two unused challenges of its pair.
C14_Witness ==
    \E p \in Procs :
        /\ pc[p] = "getDPKey"
        /\ Len(challenges) = 2
        /\ challenges[1].session_id = challenges[2].session_id
        /\ challenges[1].dp_id = challenges[2].dp_id
        /\ challenges[1].used = 0
        /\ challenges[1].created_at < challenges[2].created_at
        /\ challenge[p].challenge_id = 2

\* The latest unused challenges of the pair submission p names.
LatestUnused(p) ==
    {j \in DOMAIN challenges :
        /\ challenges[j].session_id = req[p].session_id
        /\ challenges[j].dp_id = req[p].dp_id
        /\ challenges[j].used = 0
        /\ \A k \in DOMAIN challenges :
            ( /\ challenges[k].session_id = req[p].session_id
              /\ challenges[k].dp_id = req[p].dp_id
              /\ challenges[k].used = 0 )
            => challenges[k].created_at <= challenges[j].created_at}

\* C15: a submission whose challenge is past its expires_at when the handler
\* looks at it (so every submission sent after that time) is answered
\* "Challenge expired" in a step that changes no table, and goes on only
\* with a challenge not past its expires_at; the clock changes no challenge:
\* the challenges table changes only by an issue or by the marking step of a
\* submission.
C15_ExpiredChallengeRejected ==
    [][ /\ \A p \in Procs :
            ( /\ pc[p] = "getChallenge" /\ pc'[p] /= pc[p]
              /\ \E j \in LatestUnused(p) : now > challenges[j].expires_at )
            => /\ pc'[p] = "done"
               /\ res'[p] = Response(400, "Challenge expired")
               /\ FailureKind(res'[p]) = "ChallengeInvalid"
               /\ UNCHANGED store
        /\ \A p \in Procs :
            (pc[p] = "getChallenge" /\ pc'[p] = "getDPKey")
                => now <= challenge'[p].expires_at
        /\ now' >= now
        /\ challenges' /= challenges =>
            \/ /\ Len(challenges') = Len(challenges) + 1
               /\ \A j \in DOMAIN challenges : challenges'[j] = challenges[j]
            \/ \E p \in Procs :
                /\ pc[p] = "markChallengeUsed"
                /\ pc'[p] = "createDeliveryEvent"
      ]_vars

\* A submission was answered "Challenge expired"; the challenge of its pair
\* is past its expires_at, unused, and no delivery event carries its nonce.
C15_Witness ==
    \E p \in Procs :
        /\ Rejected(p) /\ res[p].error = "Challenge expired"
        /\ \E j \in LatestUnused(p) :
            /\ now > challenges[j].expires_at
            /\ \A i \in DOMAIN delivery_events :
                delivery_events[i].challenge_nonce /= challenges[j].challenge_nonce

\* C16: every activation that stores a session stores it with created_at
\* the time of the call, expires_at = created_at + ttl_seconds * 1000 (the
\* stored unit is the millisecond) and status active.
C16_ExpiryIsCreatedPlusTtl ==
    [][ \A c \in CustomerIds, o \in OrderIds, t \in AnyTtlChoices :
            (ActivateSession(c, o, t) /\ Len(sessions') > Len(sessions)) =>
                LET row == sessions'[Len(sessions')]
                IN  /\ row.created_at = now
                    /\ row.expires_at = row.created_at + t * 1000
                    /\ row.status = "active"
                    /\ row.customer_id = c /\ row.order_id = o
      ]_vars

\* A session activated at a time after 0 with ttl_seconds = 120.
C16_Witness ==
    /\ Len(sessions) = 1
    /\ sessions[1].created_at > 0
    /\ sessions[1].expires_at = sessions[1].created_at + 120000
    /\ sessions[1].status = "active"

\* C17: no session is stored for an empty customer_id or order_id, or for a
\* ttl that is not positive: every stored session has both ids and expires
\* after it was created.
C17_ActivateValidates ==
    \A s \in DOMAIN sessions :
        /\ sessions[s].customer_id /= ""
        /\ sessions[s].order_id /= ""
        /\ sessions[s].expires_at > sessions[s].created_at

\* C18: at most one register call per dp_id succeeds, also when two run at
\* the same time, and the key stored for the dp_id is the key of the call
\* that succeeded.
C18_RegisterOnce ==
    \A p, q \in Procs :
        ( /\ pc[p] = "done" /\ res[p] = Registered
          /\ pc[q] = "done" /\ res[q] = Registered
          /\ req[p].dp_id = req[q].dp_id )
        => /\ p = q
           /\ dp_keys[req[p].dp_id].public_key = req[p].public_key

\* C19: the anchoring step of a submission always answers verified with
\* the id of the event the submission minted and changes neither sessions
\* nor challenges; when the ledger write did not succeed (no txHash) it
\* changes no event either, and the event is there in state pending, the
\* challenge used and the session completed.
C19_LedgerFailureStillVerified ==
    [][ \A p \in Procs :
            (pc[p] = "anchor" /\ pc'[p] = "done") =>
                LET id == eventData[p].event_id
                IN  /\ res'[p].status = 200
                    /\ res'[p].event_id = id
                    /\ sessions' = sessions /\ challenges' = challenges
                    /\ anchored \subseteq anchored'
                    /\ id \in DOMAIN delivery_events'
                    /\ challenges'[challenge[p].challenge_id].used = 1
                    /\ sessions'[req[p].session_id].status = "completed"
                    /\ res'[p].txHash = NULL =>
                        /\ delivery_events' = delivery_events
                        /\ anchored' = anchored
                        /\ delivery_events'[id].status = "pending"
      ]_vars

\* A submission was answered verified without a txHash; its event is stored
\* in state pending, its challenge is used and its session completed.
C19_Witness ==
    \E p \in Procs :
        /\ Succeeded(p)
        /\ res[p].txHash = NULL
        /\ delivery_events[res[p].event_id].status = "pending"
        /\ sessions[req[p].session_id].status = "completed"
        /\ \E c \in DOMAIN challenges :
            /\ challenges[c].used = 1
            /\ challenges[c].challenge_nonce
                    = delivery_events[res[p].event_id].challenge_nonce

\* C20: an event in state anchored has its anchor_hash and tx_hash recorded
\* and the ledger holds that anchor_hash; an event in state pending has
\* neither; and the event of a submission answered without a txHash is not
\* in state anchored.
C20_AnchoredOnlyIfOnLedger ==
    /\ \A i \in DOMAIN delivery_events :
        LET ev == delivery_events[i]
        IN  /\ ev.status \in {"pending", "anchored"}
            /\ ev.status = "anchored" =>
                /\ ev.anchor_hash /= NULL
                /\ ev.tx_hash /= NULL
                /\ ev.anchor_hash \in anchored
            /\ ev.status = "pending" =>
                ev.anchor_hash = NULL /\ ev.tx_hash = NULL
    /\ \A p \in Procs :
        (Succeeded(p) /\ res[p].txHash = NULL) =>
            delivery_events[res[p].event_id].status = "pending"

\* One event is anchored and on the ledger, and another, whose submission
\* was answered without a txHash, is pending.
C20_Witness ==
    \E p, q \in Procs :
        /\ Succeeded(p) /\ res[p].txHash /= NULL
        /\ delivery_events[res[p].event_id].status = "anchored"
        /\ delivery_events[res[p].event_id].anchor_hash \in anchored
        /\ Succeeded(q) /\ res[q].txHash = NULL
        /\ delivery_events[res[q].event_id].status = "pending"

\* C21: a storeAnchor transaction for a hash the registry already holds is
\* not reverted and leaves the registry as it was.
C21_StoreAnchorIdempotent ==
    [][ ( /\ receipt' /= receipt
          /\ receipt'.op = "storeAnchor"
          /\ receipt'.anchorHashes[1] \in anchored )
        => /\ ~receipt'.reverted
           /\ anchored' = anchored
           /\ emitted' = emitted
      ]_vars

\* C22: whatever storeAnchor and storeAnchorBatch transactions were sent,
\* AnchorStored was emitted at most once for each hash: once for a hash the
\* registry holds, never for another.
C22_OneRecordPerHash ==
    /\ DOMAIN emitted = anchored
    /\ \A h \in DOMAIN emitted : emitted[h] = 1

\* A batch that lists one hash twice went through, and the hash has one
\* AnchorStored event.
C22_Witness ==
    /\ receipt.op = "storeAnchorBatch"
    /\ ~receipt.reverted
    /\ Len(receipt.anchorHashes) = 2
    /\ receipt.anchorHashes[1] = receipt.anchorHashes[2]
    /\ emitted[receipt.anchorHashes[1]] = 1

\* The anchor hash computed from a row of delivery_events as read back.
RecomputedHash(row) == <<"0x", hashString(canonicalizeEvent(row))>>

\* C24: the anchor hash stored with an anchored event is the hash of the
\* canonical serialization of the event's stored fields.
C24_StoredHashRecomputes ==
    \A i \in DOMAIN delivery_events :
        delivery_events[i].status = "anchored"
            => delivery_events[i].anchor_hash = RecomputedHash(delivery_events[i])

\* C25: the canonical serialization covers the event id and every other
\* field that is not an anchoring field: two stored events, which differ at
\* least in event_id, have different serializations.
C25_SerializationCoversId ==
    \A i, j \in DOMAIN delivery_events :
        i /= j => canonicalizeEvent(delivery_events[i])
                    /= canonicalizeEvent(delivery_events[j])

\* C23: once the ledger is up, and it stays up, every stored event comes
\* to state anchored, with no further submission for it.
C23_PendingEventuallyAnchored ==
    \A i \in 1 .. MaxProofs :
        []( (i \in DOMAIN delivery_events /\ ledger_up)
            => <>( /\ i \in DOMAIN delivery_events
                   /\ delivery_events[i].status = "anchored" ) )

\* A verify request answers in this step.
VerifyAnswers(p) ==
    /\ pc[p] \in {"idle", "isAnchored"}
    /\ pc'[p] = "done"
    /\ res'[p] \in {EventNotFound} \cup
                   {r \in {res'[p]} : r.status = 200 /\ "body" \in DOMAIN r}

\* C26: the report on an event whose stored fields no longer hash to its
\* stored anchor_hash does not confirm the event, whatever the ledger says.
C26_TamperReported ==
    [][ \A p \in Procs :
          ( /\ pc[p] = "isAnchored"
            /\ pc'[p] = "done"
            /\ RecomputedHash(eventData[p]) /= eventData[p].anchor_hash )
          => ~res'[p].body.blockchain_verified
      ]_vars

\* C27: verify answers 404 'Event not found' when no event has the id;
\* otherwise its report has blockchain_verified true only if the row has an
\* anchor_hash, the ledger answered and the ledger holds that hash, and
\* false for every event that has no anchor_hash.
C27_LedgerConfirmed ==
    [][ \A p \in Procs :
          VerifyAnswers(p) =>
            LET id == req'[p].event_id
                r == res'[p]
            IN  IF id \notin DOMAIN delivery_events
                THEN r = EventNotFound
                ELSE /\ r.status = 200
                     /\ r.body.event_id = id
                     /\ r.body.blockchain_verified
                            => /\ r.body.anchor_hash /= NULL
                               /\ ledger_up
                               /\ r.body.anchor_hash \in anchored
                     /\ delivery_events[id].anchor_hash = NULL
                            => ~r.body.blockchain_verified
      ]_vars

\* The ledger was read for an anchored event and the report confirms it.
C27_Witness ==
    \E p \in Procs :
        /\ pc[p] = "done" /\ res[p].status = 200 /\ "body" \in DOMAIN res[p]
        /\ res[p].body.status = "anchored"
        /\ res[p].body.anchor_hash \in anchored
        /\ res[p].body.blockchain_verified

\* C28: with the ledger up, the anchoring step of a submission answers
\* verified with a new event id and a txHash and leaves the event anchored;
\* a submission whose bundle is signed by the registered key over a message
\* naming the session and the issued nonce is not turned down; a following
\* verify of an anchored event reports status anchored and
\* blockchain_verified; and issue for an active session answers 403
\* 'Delivery partner not registered' while the actor has no key.
C28_EndToEnd ==
    [][ /\ \A p \in Procs :
            /\ (pc[p] = "anchor" /\ pc'[p] = "done" /\ ledger_up)
                => /\ res'[p].status = 200
                   /\ res'[p].txHash /= NULL
                   /\ res'[p].event_id \in DOMAIN delivery_events'
                   /\ res'[p].event_id > submitted[p].events
                   /\ delivery_events'[res'[p].event_id].status = "anchored"
                   /\ delivery_events'[res'[p].event_id].tx_hash = res'[p].txHash
            /\ (pc[p] = "getDPKey" /\ pc'[p] = "done")
                => ~( /\ Parsed(req'[p])
                      /\ SignedByActor(req'[p])
                      /\ req'[p].signed_blob.message.session_id = req'[p].session_id
                      /\ req'[p].signed_blob.message.challenge_nonce
                            = challenge[p].challenge_nonce )
            /\ ( /\ VerifyAnswers(p)
                 /\ ledger_up
                 /\ req'[p].event_id \in DOMAIN delivery_events
                 /\ delivery_events[req'[p].event_id].status = "anchored" )
                => /\ res'[p].body.status = "anchored"
                   /\ res'[p].body.blockchain_verified
        /\ \A i \in IssueInputs :
            ( /\ i[1] \in DOMAIN sessions'
              /\ sessions'[i[1]].status = "active"
              /\ now' <= sessions'[i[1]].expires_at
              /\ dp_keys'[i[2]] = NULL )
            => IssueResponse(sessions', dp_keys', now', i[1], i[2])
                    = Response(403, "Delivery partner not registered")
      ]_vars

\* The end-to-end run: a submission was answered verified with a txHash and
\* the verify of its event reports it anchored and confirmed by the ledger,
\* while the other actor is still refused a challenge.
C28_Witness ==
    \E p, q \in Procs :
        /\ pc[p] = "done" /\ res[p].status = 200 /\ "txHash" \in DOMAIN res[p]
        /\ res[p].txHash /= NULL
        /\ pc[q] = "done" /\ res[q].status = 200 /\ "body" \in DOMAIN res[q]
        /\ res[q].body.event_id = res[p].event_id
        /\ res[q].body.status = "anchored"
        /\ res[q].body.blockchain_verified
        /\ dp_keys["dp_2"] = NULL

\* C29: no challenge is written for a session that is completed at the
\* moment of the write.
C29_NoChallengeForCompleted ==
    [][ Len(challenges') > Len(challenges)
        => sessions[challenges'[Len(challenges')].session_id].status
                /= "completed"
      ]_vars

\* C30: the event of a successful submission carries the session_id, dp_id
\* and challenge_nonce of the signed message, and the challenge of that
\* nonce is used and is a challenge of the message's (session_id, dp_id).
C30_EventMatchesMessage ==
    \A p \in Procs :
        Succeeded(p) =>
            LET ev == delivery_events[res[p].event_id]
                m == req[p].signed_blob.message
            IN  /\ ev.session_id = m.session_id
                /\ ev.challenge_nonce = m.challenge_nonce
                /\ ev.dp_id = m.dp_id
                /\ \E c \in DOMAIN challenges :
                    /\ challenges[c].challenge_nonce = m.challenge_nonce
                    /\ challenges[c].used = 1
                    /\ challenges[c].session_id = m.session_id
                    /\ challenges[c].dp_id = m.dp_id

\* C31: no session row is removed; a session's status changes only from
\* active to completed, and only in the step in which a submission for that
\* session, its event already stored, runs updateSessionStatus, after which
\* nothing is left that can turn the submission down.
C31_ActiveToCompletedOnce ==
    [][ /\ DOMAIN sessions \subseteq DOMAIN sessions'
        /\ \A s \in DOMAIN sessions :
            sessions'[s].status /= sessions[s].status
                => /\ sessions[s].status = "active"
                   /\ sessions'[s].status = "completed"
                   /\ \E p \in Procs :
                        /\ pc[p] = "updateSessionStatus"
                        /\ pc'[p] = "anchor"
                        /\ req[p].session_id = s
                        /\ eventData[p].event_id \in DOMAIN delivery_events
                        /\ delivery_events[eventData[p].event_id].session_id = s
      ]_vars

\* A session is completed, its submission answered verified, and a second
\* submission for it has run updateSessionStatus as well.
C31_Witness ==
    /\ \A p \in Procs : Succeeded(p) /\ req[p].session_id = 1
    /\ sessions[1].status = "completed"

\* C32: reading a session writes nothing.  A step that answers a request
\* with an error, a step that issues a challenge and the passing of time
\* leave every session row as it is, also when the session is past
\* expires_at; no row ever holds a status other than active and completed;
\* and issue answers 'Session expired' exactly when the clock is past the
\* expires_at of the row as stored.
C32_LookupIsPureRead ==
    [][ /\ (\E p \in Procs : /\ pc[p] /= "done" /\ pc'[p] = "done"
                            /\ res'[p].status /= 200)
            => sessions' = sessions
        /\ (challenges' /= challenges \/ now' /= now) => sessions' = sessions
        /\ \A s \in DOMAIN sessions' :
            sessions'[s].status \in {"active", "completed"}
        /\ \A i \in IssueInputs :
            i[1] \in DOMAIN sessions'
                => ( IssueResponse(sessions', dp_keys', now', i[1], i[2]).error
                        = "Session expired"
                     <=> now' > sessions'[i[1]].expires_at )
      ]_vars

\* A session past expires_at is still stored as active; a submission for it
\* was turned down and issue answers 'Session expired'.
C32_Witness ==
    /\ 1 \in DOMAIN sessions
    /\ now > sessions[1].expires_at
    /\ sessions[1].status = "active"
    /\ \E p \in Procs : Rejected(p) /\ req[p].session_id = 1
    /\ IssueResponse(sessions, dp_keys, now, 1, "dp_1").error = "Session expired"

\* C33: no step removes a challenge row or changes one but in its used
\* flag, and the flag changes only from 0 to 1.
C33_UsedIsMonotone ==
    [][ /\ DOMAIN challenges \subseteq DOMAIN challenges'
        /\ \A c \in DOMAIN challenges :
            /\ challenges'[c].used >= challenges[c].used
            /\ [challenges'[c] EXCEPT !.used = 0]
                    = [challenges[c] EXCEPT !.used = 0]
      ]_vars

\* A challenge was used, a second challenge was stored, and a second
\* submission has marked the used challenge again.
C33_Witness ==
    /\ Len(challenges) = 2
    /\ challenges[1].used = 1
    /\ \A p \in Procs :
        /\ Succeeded(p)
        /\ delivery_events[res[p].event_id].challenge_nonce
                = challenges[1].challenge_nonce

\* The rows of a table that belong to one session.
OfSession(rows, B) ==
    [i \in {j \in DOMAIN rows : rows[j].session_id = B} |-> rows[i]]

\* The step is a step of a submission for session B, or issues a challenge
\* for session B.
StepOf(B) ==
    \/ \E p \in Procs : pc'[p] /= pc[p] /\ req'[p].session_id = B
    \/ /\ Len(challenges') > Len(challenges)
       /\ challenges'[Len(challenges')].session_id = B

\* C34: a step of a request for one session leaves the row, the challenges
\* and the events of every other session as they are, and the challenge a
\* submission selects, or its absence, is decided by the challenges of its
\* own session alone.
C34_SessionsAreIsolated ==
    [][ /\ \A B \in DOMAIN sessions :
            StepOf(B) \/
                /\ sessions'[B] = sessions[B]
                /\ OfSession(challenges', B) = OfSession(challenges, B)
                /\ OfSession(delivery_events', B) = OfSession(delivery_events, B)
        /\ \A B \in DOMAIN sessions' :
            getChallenge(challenges', B, "dp_1")
                = getChallenge(OfSession(challenges', B), B, "dp_1")
      ]_vars

\* Two sessions with a challenge each; the submission for one was answered
\* verified while the one for the other was in flight and then verified too.
C34_Witness ==
    /\ Len(sessions) = 2
    /\ \A p \in Procs : Succeeded(p)
    /\ req[1].session_id /= req[2].session_id
    /\ \A c \in DOMAIN challenges : challenges[c].used = 1

\* C35: every stored challenge expires ChallengeWindowMs after it was
\* created, and that window is shorter than the time to live of its session.
C35_WindowShorterThanTtl ==
    \A c \in DOMAIN challenges :
        /\ challenges[c].expires_at = challenges[c].created_at + ChallengeWindowMs
        /\ ChallengeWindowMs
            < sessions[challenges[c].session_id].expires_at
                - sessions[challenges[c].session_id].created_at

\* C36: a hash the registry holds is held after every transaction, the
\* reverted ones included, and so isAnchored stays true for it; no
\* AnchorStored event is ever taken back.
C36_LedgerAppendOnly ==
    [][ /\ anchored \subseteq anchored'
        /\ \A h \in anchored :
            isAnchored([anchored |-> anchored', emitted |-> emitted'], h)
        /\ \A h \in DOMAIN emitted :
            h \in DOMAIN emitted' /\ emitted'[h] >= emitted[h]
      ]_vars

\* The registry holds two hashes and the last transaction, a storeAnchor of
\* one of them, was reverted.
C36_Witness ==
    /\ Cardinality(anchored) >= 2
    /\ receipt.op = "storeAnchor"
    /\ receipt.reverted
    /\ receipt.anchorHashes[1] \in anchored

\* The row an activation for a customer and order would hand to
\* createSession, given the sessions stored.
SessionDataFor(ss, customer_id, order_id, t) ==
    [session_id |-> Len(ss) + 1,
     customer_id |-> customer_id,
     order_id |-> order_id,
     ephemeral_token |-> generateToken("token", Len(ss) + 1),
     token_type |-> "BLE",
     created_at |-> t,
     expires_at |-> SessionExpiry(t, 60)]

\* C37: createSession adds a row whatever sessions the customer and order
\* already have; the row an activation adds has an id no stored session has
\* and status active, and leaves the stored sessions as they are; and issue
\* goes through for every active, unexpired session of a registered actor.
C37_SecondSessionForPair ==
    [][ /\ \A i \in DOMAIN sessions' :
            LET ss == createSession(sessions',
                        SessionDataFor(sessions', sessions'[i].customer_id,
                                       sessions'[i].order_id, now'))
            IN  /\ Len(ss) = Len(sessions') + 1
                /\ ss[Len(ss)].status = "active"
                /\ \A j \in DOMAIN sessions' : ss[j] = sessions'[j]
        /\ Len(sessions') > Len(sessions)
            => /\ \A j \in DOMAIN sessions :
                    /\ sessions'[j] = sessions[j]
                    /\ sessions'[j].session_id
                            /= sessions'[Len(sessions')].session_id
               /\ sessions'[Len(sessions')].status = "active"
        /\ \A i \in DOMAIN sessions' :
            ( /\ sessions'[i].status = "active"
              /\ now' <= sessions'[i].expires_at
              /\ getDPKey(dp_keys', "dp_1") /= NULL )
            => IssueResponse(sessions', dp_keys', now', i, "dp_1") = NoResponse
      ]_vars

\* Two active sessions of one customer and order, each with a challenge.
C37_Witness ==
    /\ Len(sessions) = 2
    /\ sessions[1].customer_id = sessions[2].customer_id
    /\ sessions[1].order_id = sessions[2].order_id
    /\ sessions[1].session_id /= sessions[2].session_id
    /\ sessions[1].status = "active" /\ sessions[2].status = "active"
    /\ Len(challenges) = 2
    /\ challenges[1].session_id /= challenges[2].session_id

\* C38: when a submission reaches the ledger its event is stored and its
\* session completed; every hash on the ledger after a step is the hash of
\* an event that was stored, its session completed, before the step.
C38_StoredBeforeAnchored ==
    [][ /\ \A p \in Procs :
            (pc[p] = "anchor" /\ pc'[p] = "done")
                => /\ eventData[p].event_id \in DOMAIN delivery_events
                   /\ delivery_events[eventData[p].event_id].session_id
                            = req[p].session_id
                   /\ sessions[req[p].session_id].status = "completed"
        /\ \A h \in anchored' :
            \E i \in DOMAIN delivery_events :
                /\ RecomputedHash(delivery_events[i]) = h
                /\ sessions[delivery_events[i].session_id].status = "completed"
      ]_vars

\* A hash is on the ledger; its event is stored and anchored, and the
\* write of another submission failed.
C38_Witness ==
    /\ anchored /= {}
    /\ \E i \in DOMAIN delivery_events :
        /\ delivery_events[i].status = "anchored"
        /\ delivery_events[i].anchor_hash \in anchored
    /\ \E p \in Procs : pc[p] = "done" /\ res[p].status = 500

\* C39: in every state of the registry, a storeAnchorBatch call with arrays
\* of different lengths reverts and leaves the registry as it is; a call with
\* arrays of equal lengths does not revert, whatever hashes are anchored
\* already, keeps every anchored hash, and isAnchored is true afterwards for
\* every hash of the batch.
C39_BatchRevertsOnlyOnLengths ==
    \A anchorHashes \in HashArrays, eventIds \in IdArrays :
        LET tx == storeAnchorBatch(Registry, anchorHashes, eventIds)
        IN  IF Len(anchorHashes) /= Len(eventIds)
            THEN /\ tx.reverted
                 /\ tx.anchored = anchored
                 /\ tx.emitted = emitted
            ELSE /\ ~tx.reverted
                 /\ anchored \subseteq tx.anchored
                 /\ \A i \in 1 .. Len(anchorHashes) :
                        isAnchored(tx, anchorHashes[i])

\* A batch of two different hashes went through and the registry holds every
\* hash a sender may name: any further batch lists anchored hashes only.
C39_Witness ==
    /\ receipt.op = "storeAnchorBatch"
    /\ ~receipt.reverted
    /\ Len(receipt.anchorHashes) = 2
    /\ receipt.anchorHashes[1] /= receipt.anchorHashes[2]
    /\ Cardinality(anchored) = 3
    /\ \A i \in 1 .. 2 : isAnchored(Registry, receipt.anchorHashes[i])

\* A step of the verify handler of slot p: the read of the row or the read
\* of the ledger.
VerifyStep(p) ==
    \/ /\ pc[p] = "idle" /\ pc'[p] /= "idle"
       /\ DOMAIN req'[p] = {"event_id"}
    \/ pc[p] = "isAnchored" /\ pc'[p] /= "isAnchored"

\* C40: a step of verify changes no session, challenge, key, event or ledger
\* state; and verify of a stored event answered while the ledger does not
\* answer is the 200 report of the row as read with blockchain_verified
\* false.
C40_VerifyReadOnlyAndTolerant ==
    [][ \A p \in Procs :
          VerifyStep(p) =>
            /\ store' = store
            /\ ledger' = ledger
            /\ (pc'[p] = "done" /\ ~ledger_up
                    /\ req'[p].event_id \in DOMAIN delivery_events)
                => LET event == IF pc[p] = "isAnchored" THEN eventData[p]
                                 ELSE delivery_events[req'[p].event_id]
                   IN  res'[p] = VerifyReport(event, FALSE)
      ]_vars

\* Verify of an event whose hash the ledger holds was answered while the
\* ledger was down: a 200 report, not confirmed.
C40_Witness ==
    /\ ~ledger_up
    /\ \E p \in Procs :
        /\ pc[p] = "done" /\ DOMAIN req[p] = {"event_id"}
        /\ res[p].status = 200
        /\ res[p].body.status = "anchored"
        /\ res[p].body.anchor_hash \in anchored
        /\ ~res[p].body.blockchain_verified

====
